---------------------------- MODULE Spec2Model ----------------------------
(***************************************************************************)
(* SquatchScan: the scoring engine (src/src/lib/squatch.ts), the analyze   *)
(* route that feeds it (src/src/app/api/analyze/route.ts) and the upload   *)
(* page that calls the route (src/src/app/page.tsx).                       *)
(*                                                                         *)
(* JavaScript values are modelled with their dynamic type, because the     *)
(* engine is written against truthiness, ?? and implicit numeric           *)
(* conversion.  Text is a sequence of one-character strings, so that       *)
(* toLowerCase() and includes() are computed, not assumed.  Numbers are    *)
(* exact rationals with the common denominator Scale.                      *)
(***************************************************************************)
EXTENDS Integers, Sequences, FiniteSets, TLC

(***************************************************************************)
(* Bounds of the model.                                                    *)
(***************************************************************************)
\* Numbers are multiples of 1/Scale: creatureConfidence ranges over k/Scale.
Scale == 2
\* getProgressMessage is called with the indices 0..MaxIndex.
MaxIndex == 40
\* An object of a modelled answer of the vision model has up to MaxMembers members.
MaxMembers == 2

\* "blurry": 0-10 in the prompt that asks the vision model for the record.
MaxBlur == 10

(***************************************************************************)
(* JavaScript values.                                                      *)
(***************************************************************************)
V(t, b, n, s) == [t |-> t, b |-> b, n |-> n, s |-> s]
Undefined == V("undefined", FALSE, 0, <<>>)
Null      == V("null", FALSE, 0, <<>>)
NaN       == V("nan", FALSE, 0, <<>>)
\* a non-null object or array met where a primitive is expected
SomeObject == V("object", FALSE, 0, <<>>)
Bool(b)   == V("boolean", b, 0, <<>>)
True      == Bool(TRUE)
False     == Bool(FALSE)
\* the number n/Scale
Frac(n)   == V("number", FALSE, n, <<>>)
\* the integer i
Num(i)    == Frac(i * Scale)
Str(s)    == V("string", FALSE, 0, s)

\* ToBoolean
Truthy(v) ==
  CASE v.t = "boolean" -> v.b
    [] v.t = "number"  -> v.n # 0
    [] v.t = "string"  -> v.s # <<>>
    [] v.t = "object"  -> TRUE
    [] OTHER           -> FALSE

\* a ?? b
Coalesce(a, b) == IF a.t \in {"undefined", "null"} THEN b ELSE a
\* a || b
Or(a, b) == IF Truthy(a) THEN a ELSE b

Digits == <<"0", "1", "2", "3", "4", "5", "6", "7", "8", "9">>
IsDigit(c) == \E i \in 1..10 : Digits[i] = c
DigitValue(c) == (CHOOSE i \in 1..10 : Digits[i] = c) - 1
RECURSIVE DecimalValue(_)
DecimalValue(s) ==
  IF s = <<>> THEN 0
  ELSE 10 * DecimalValue(SubSeq(s, 1, Len(s) - 1)) + DigitValue(s[Len(s)])

\* ToNumber.  Text is converted exactly when it is empty or a run of decimal
\* digits; the other texts of this model hold a letter that no numeric
\* literal has, and convert to NaN.
ToNumber(v) ==
  CASE v.t = "number"  -> v
    [] v.t = "null"    -> Num(0)
    [] v.t = "boolean" -> IF v.b THEN Num(1) ELSE Num(0)
    [] v.t = "string"  -> IF \A i \in 1..Len(v.s) : IsDigit(v.s[i])
                          THEN Num(DecimalValue(v.s)) ELSE NaN
    [] OTHER           -> NaN

\* a < b and a > b on values: false as soon as one side converts to NaN
Less(a, b) ==
  LET x == ToNumber(a)
      y == ToNumber(b)
  IN  x.t = "number" /\ y.t = "number" /\ x.n < y.n
Greater(a, b) == Less(b, a)

\* a + b and a * b on numbers
Add(a, b) == IF a.t = "number" /\ b.t = "number" THEN Frac(a.n + b.n) ELSE NaN
Mul(a, b) ==
  LET x == ToNumber(a)
      y == ToNumber(b)
  IN  IF x.t = "number" /\ y.t = "number" THEN [q |-> x.n * y.n, ok |-> TRUE]
      ELSE [q |-> 0, ok |-> FALSE]

\* Math.round of the product p (p.q in units of 1/Scale^2): floor(x + 1/2)
MathRound(p) ==
  IF p.ok THEN Num((2 * p.q + Scale * Scale) \div (2 * Scale * Scale)) ELSE NaN

\* Math.min and Math.max: NaN as soon as one argument is NaN
MathMin(a, b) ==
  IF a.t # "number" \/ b.t # "number" THEN NaN ELSE IF a.n <= b.n THEN a ELSE b
MathMax(a, b) ==
  IF a.t # "number" \/ b.t # "number" THEN NaN ELSE IF a.n >= b.n THEN a ELSE b

(***************************************************************************)
(* Text.                                                                   *)
(***************************************************************************)
UpperCase == <<"A", "B", "C", "D", "E", "F", "G", "H", "I", "J", "K", "L", "M",
               "N", "O", "P", "Q", "R", "S", "T", "U", "V", "W", "X", "Y", "Z">>
LowerCase == <<"a", "b", "c", "d", "e", "f", "g", "h", "i", "j", "k", "l", "m",
               "n", "o", "p", "q", "r", "s", "t", "u", "v", "w", "x", "y", "z">>
LowerChar(c) ==
  IF \E i \in 1..26 : UpperCase[i] = c
  THEN LowerCase[CHOOSE i \in 1..26 : UpperCase[i] = c]
  ELSE c
\* String.prototype.toLowerCase
toLowerCase(s) == [i \in 1..Len(s) |-> LowerChar(s[i])]
\* String.prototype.includes
includes(s, sub) ==
  \E i \in 1..(Len(s) - Len(sub) + 1) : SubSeq(s, i, i + Len(sub) - 1) = sub


(***************************************************************************)
(* The analysis record (interface AIAnalysis).  An absent property reads   *)
(* as undefined.  The value handed to the engine is what JSON.parse        *)
(* returned: an object, null, or a primitive (whose properties all read    *)
(* as undefined).                                                          *)
(***************************************************************************)
Keys == {"environment", "blurry", "humanoid", "humanoidSquatchLike",
         "wearingClothes", "hairyOrFurry", "knownPrimate", "primateType",
         "animal", "animalType", "lighting", "objectsDetected",
         "creatureConfidence", "description", "dadProfileMatch"}
EmptyRecord == [k \in Keys |-> Undefined]
Obj(f)      == [t |-> "object", f |-> f]
NullData    == [t |-> "null", f |-> EmptyRecord]
Primitive   == [t |-> "primitive", f |-> EmptyRecord]

\* how an evaluation ends: with a value, or with a TypeError thrown
Return(v) == [kind |-> "return", v |-> v]
Throw     == [kind |-> "throw", v |-> [name |-> "TypeError"]]

(***************************************************************************)
(* src/src/lib/squatch.ts                                                  *)
(* The source's two non-ASCII characters are written in ASCII here: the    *)
(* ellipsis of the progress messages as "...", the dash of the third       *)
(* conclusion as "-".                                                      *)
(***************************************************************************)
PROGRESS_MESSAGES ==
  << "Scanning for fur density...",
     "Enhancing blur...",
     "Measuring bipedal stride...",
     "Analyzing footprint depth...",
     "Cross-referencing Bigfoot databases...",
     "Calculating forest adjacency...",
     "Running blur-to-Squatch algorithm...",
     "Verifying eyewitness credibility...",
     "Finalizing scientific report..." >>

\* arr[i] of a JavaScript array (0-based; undefined outside it)
ArrayGet(arr, i) == IF i \in 0..(Len(arr) - 1) THEN arr[i + 1] ELSE "undefined"
\* a % b of JavaScript for b > 0: the sign of the result is that of a
Rem(a, b) == IF a >= 0 THEN a % b ELSE 0 - ((0 - a) % b)

\* mutant: the index is not reduced modulo the length
getProgressMessage_noMod(index) == ArrayGet(PROGRESS_MESSAGES, index)

getProgressMessage(index) ==
  ArrayGet(PROGRESS_MESSAGES, Rem(index, Len(PROGRESS_MESSAGES)))

\* mutant: the two penalties swapped
knownPrimatePenalty_swapped(d, blurry) ==
  IF Truthy(d.knownPrimate)
  THEN (IF Less(blurry, Num(4)) THEN 0 - 50 ELSE 0 - 70)
  ELSE 0

\* if (data.knownPrimate) { if (blurry < 4) score -= 70; else score -= 50; }
knownPrimatePenalty(d, blurry) ==
  IF Truthy(d.knownPrimate)
  THEN (IF Less(blurry, Num(4)) THEN 0 - 70 ELSE 0 - 50)
  ELSE 0

isKnownPrimateType(primateType) ==
  \/ includes(primateType, <<"o", "r", "a", "n", "g", "u", "t", "a", "n">>)
  \/ includes(primateType, <<"g", "o", "r", "i", "l", "l", "a">>)
  \/ includes(primateType, <<"c", "h", "i", "m", "p", "a", "n", "z", "e", "e">>)
  \/ includes(primateType, <<"c", "h", "i", "m", "p">>)
  \/ includes(primateType, <<"m", "o", "n", "k", "e", "y">>)
  \/ includes(primateType, <<"g", "i", "b", "b", "o", "n">>)
  \/ includes(primateType, <<"b", "a", "b", "o", "o", "n">>)

\* mutant: the label penalty does not look at the knownPrimate flag
primateTypePenalty_noDedup(d, blurry, primateType) ==
  IF isKnownPrimateType(primateType)
  THEN (IF Less(blurry, Num(4)) THEN 0 - 65 ELSE 0 - 45)
  ELSE 0

\* if (isKnownPrimateType && !data.knownPrimate) { -65 or -45 }
primateTypePenalty(d, blurry, primateType) ==
  IF isKnownPrimateType(primateType) /\ ~Truthy(d.knownPrimate)
  THEN (IF Less(blurry, Num(4)) THEN 0 - 65 ELSE 0 - 45)
  ELSE 0

environmentScore(env) ==
    (IF includes(env, <<"f", "o", "r", "e", "s", "t">>) \/ includes(env, <<"w", "o", "o", "d", "s">>) THEN 15 ELSE 0)
  + (IF includes(env, <<"i", "n", "d", "o", "o", "r">>) \/ includes(env, <<"i", "n", "s", "i", "d", "e">>) THEN 0 - 40 ELSE 0)

\* mutant: no clothing penalty
clothesPenalty_none(d) == 0

clothesPenalty(d) == IF Truthy(d.wearingClothes) THEN 0 - 50 ELSE 0

squatchLikeBonus(d) == IF Truthy(d.humanoidSquatchLike) THEN 45 ELSE 0
hairyHumanoidBonus(d) ==
  IF Truthy(d.hairyOrFurry) /\ Truthy(d.humanoid) THEN 35 ELSE 0
\* mutant: the generic bonus does not look at the squatch traits
genericHumanoidBonus_lax(d) ==
  IF Truthy(d.humanoid) /\ ~Truthy(d.wearingClothes) THEN 15 ELSE 0

genericHumanoidBonus(d) ==
  IF /\ Truthy(d.humanoid)
     /\ ~Truthy(d.wearingClothes)
     /\ ~Truthy(d.humanoidSquatchLike)
     /\ ~Truthy(d.hairyOrFurry)
  THEN 15 ELSE 0

\* if (!data.knownPrimate && !isKnownPrimateType) { the three bonuses }
humanoidBonus(d, primateType) ==
  IF ~Truthy(d.knownPrimate) /\ ~isKnownPrimateType(primateType)
  THEN squatchLikeBonus(d) + hairyHumanoidBonus(d) + genericHumanoidBonus(d)
  ELSE 0

blurScore(blurry, lighting) ==
    (IF Greater(blurry, Num(7)) THEN 20 ELSE 0)
  + (IF Less(blurry, Num(3)) /\ includes(lighting, <<"b", "r", "i", "g", "h", "t">>) THEN 0 - 15 ELSE 0)

animalScore(d, animalType) ==
    (IF Truthy(d.animal) THEN 10 ELSE 0)
  + (IF includes(animalType, <<"b", "e", "a", "r">>) THEN 8 ELSE 0)

lightingPenalty(lighting) ==
  IF includes(lighting, <<"b", "r", "i", "g", "h", "t">>) \/ includes(lighting, <<"w", "e", "l", "l", "-", "l", "i", "t">>)
  THEN 0 - 10 ELSE 0

\* mutant: the guard is missing, so undefined * 15 is rounded
confidenceScore_noGuard(d) == MathRound(Mul(d.creatureConfidence, Num(15)))

\* if (data.creatureConfidence !== undefined)
\*   score += Math.round(data.creatureConfidence * 15);
confidenceScore(d) ==
  IF d.creatureConfidence.t # "undefined"
  THEN MathRound(Mul(d.creatureConfidence, Num(15)))
  ELSE Num(0)

\* mutant: the upper bound is not applied
clamp_noMin(score) == MathMax(Num(0), score)

\* Math.max(0, Math.min(100, score))
clamp(score) == MathMax(Num(0), MathMin(Num(100), score))

\* the accumulator score just before the return statement
rawScore(d, blurry, env, lighting, animalType, primateType) ==
  Add(Num(10
          + knownPrimatePenalty(d, blurry)
          + primateTypePenalty(d, blurry, primateType)
          + environmentScore(env)
          + clothesPenalty(d)
          + humanoidBonus(d, primateType)
          + blurScore(blurry, lighting)
          + animalScore(d, animalType)
          + lightingPenalty(lighting)),
      confidenceScore(d))

\* (data.environment || ""), before .toLowerCase() is called on it
Label(v) == Or(v, Str(<<>>))

\* score when the return statement is reached
accumulated(data) ==
  LET d == data.f
  IN  rawScore(d, Coalesce(d.blurry, Num(0)),
               toLowerCase(Label(d.environment).s),
               toLowerCase(Label(d.lighting).s),
               toLowerCase(Label(d.animalType).s),
               toLowerCase(Label(d.primateType).s))

calculateSquatchScore(data) ==
  IF data.t = "null" THEN Throw   \* cannot read properties of null
  ELSE IF \E k \in {"environment", "lighting", "animalType", "primateType"} :
            Label(data.f[k]).t # "string"
  THEN Throw                      \* .toLowerCase is not a function
  ELSE Return(clamp(accumulated(data)))

\* mutant: the brackets include their lower boundary
generateConclusion_inclusive(score) ==
  IF Greater(score, Num(79)) THEN "Highly probable Squatch encounter"
  ELSE IF Greater(score, Num(59)) THEN "Suspiciously Squatchy"
  ELSE IF Greater(score, Num(39)) THEN "Inconclusive - classic blurry evidence"
  ELSE IF Greater(score, Num(19)) THEN "Probably not a Squatch"
  ELSE "Definitely not a Squatch"

generateConclusion(score) ==
  IF Greater(score, Num(80)) THEN "Highly probable Squatch encounter"
  ELSE IF Greater(score, Num(60)) THEN "Suspiciously Squatchy"
  ELSE IF Greater(score, Num(40)) THEN "Inconclusive - classic blurry evidence"
  ELSE IF Greater(score, Num(20)) THEN "Probably not a Squatch"
  ELSE "Definitely not a Squatch"

Report(score, conclusion, dadSquatch) ==
  [score |-> score, conclusion |-> conclusion,
   easterEgg |-> Undefined, dadSquatch |-> dadSquatch]

\* mutant: the operator-profile flag is not looked at
generateSquatchReport_noOverride(aiAnalysis) ==
  IF aiAnalysis.t = "null" THEN Throw
  ELSE LET score == calculateSquatchScore(aiAnalysis)
       IN  IF score.kind = "throw" THEN Throw
           ELSE Return(Report(score.v, generateConclusion(score.v), Undefined))

\* mutant: the override replaces the score and leaves the verdict to the brackets
generateSquatchReport_overrideScoreOnly(aiAnalysis) ==
  IF aiAnalysis.t = "null" THEN Throw
  ELSE IF Truthy(aiAnalysis.f.dadProfileMatch)
  THEN Return(Report(Num(100), generateConclusion(Num(100)), True))
  ELSE LET score == calculateSquatchScore(aiAnalysis)
       IN  IF score.kind = "throw" THEN Throw
           ELSE Return(Report(score.v, generateConclusion(score.v), Undefined))

generateSquatchReport(aiAnalysis) ==
  IF aiAnalysis.t = "null" THEN Throw
  ELSE IF Truthy(aiAnalysis.f.dadProfileMatch)
  THEN Return(Report(Num(100),
                     "Definitely a squatch, no explanation needed.", True))
  ELSE LET score == calculateSquatchScore(aiAnalysis)
       IN  IF score.kind = "throw" THEN Throw
           ELSE Return(Report(score.v, generateConclusion(score.v), Undefined))

(***************************************************************************)
(* src/src/app/api/analyze/route.ts                                        *)
(* The vision model's answer is a text.  It is modelled as the sequence of *)
(* its lexemes: the JSON lexemes ({ } [ ] : , and literals, a literal      *)
(* carrying its value), a line break, a blank, the two code-fence markers  *)
(* (three backquotes followed by json, and three backquotes alone), and a  *)
(* word (any run of characters that is none of these, such as prose).      *)
(***************************************************************************)
Tok(k, v) == [k |-> k, v |-> v]
LBrace    == Tok("{", Undefined)
RBrace    == Tok("}", Undefined)
LBracket  == Tok("[", Undefined)
RBracket  == Tok("]", Undefined)
Colon     == Tok(":", Undefined)
Comma     == Tok(",", Undefined)
Lit(v)    == Tok("lit", v)
NL        == Tok("nl", Undefined)
SP        == Tok("sp", Undefined)
FenceJson == Tok("fence-json", Undefined)
Fence     == Tok("fence", Undefined)
Word      == Tok("word", Undefined)

\* String.prototype.trim
RECURSIVE TrimStart(_)
TrimStart(s) ==
  IF s # <<>> /\ s[1].k \in {"nl", "sp"} THEN TrimStart(Tail(s)) ELSE s
RECURSIVE TrimEnd(_)
TrimEnd(s) ==
  IF s # <<>> /\ s[Len(s)].k \in {"nl", "sp"}
  THEN TrimEnd(SubSeq(s, 1, Len(s) - 1)) ELSE s
Trim(s) == TrimEnd(TrimStart(s))

\* content.replace(/FENCEjson\n?|\n?FENCE/g, "") with FENCE the three backquotes:
\* the matches are taken from left to right.  A line break right before the
\* json fence is matched together with the three backquotes by the second
\* alternative, which leaves the word json.
RECURSIVE StripFences(_)
StripFences(s) ==
  IF s = <<>> THEN <<>>
  ELSE IF s[1].k = "fence-json"
  THEN (IF Len(s) >= 2 /\ s[2].k = "nl"
        THEN StripFences(SubSeq(s, 3, Len(s)))
        ELSE StripFences(Tail(s)))
  ELSE IF s[1].k = "nl" /\ Len(s) >= 2 /\ s[2].k = "fence"
  THEN StripFences(SubSeq(s, 3, Len(s)))
  ELSE IF s[1].k = "nl" /\ Len(s) >= 2 /\ s[2].k = "fence-json"
  THEN <<Word>> \o StripFences(SubSeq(s, 3, Len(s)))
  ELSE IF s[1].k = "fence"
  THEN StripFences(Tail(s))
  ELSE <<s[1]>> \o StripFences(Tail(s))

\* the text of each property name of AIAnalysis
KeyText ==
  [environment |-> <<"e", "n", "v", "i", "r", "o", "n", "m", "e", "n", "t">>,
   blurry |-> <<"b", "l", "u", "r", "r", "y">>,
   humanoid |-> <<"h", "u", "m", "a", "n", "o", "i", "d">>,
   humanoidSquatchLike |-> <<"h", "u", "m", "a", "n", "o", "i", "d", "S", "q", "u", "a", "t", "c", "h", "L", "i", "k", "e">>,
   wearingClothes |-> <<"w", "e", "a", "r", "i", "n", "g", "C", "l", "o", "t", "h", "e", "s">>,
   hairyOrFurry |-> <<"h", "a", "i", "r", "y", "O", "r", "F", "u", "r", "r", "y">>,
   knownPrimate |-> <<"k", "n", "o", "w", "n", "P", "r", "i", "m", "a", "t", "e">>,
   primateType |-> <<"p", "r", "i", "m", "a", "t", "e", "T", "y", "p", "e">>,
   animal |-> <<"a", "n", "i", "m", "a", "l">>,
   animalType |-> <<"a", "n", "i", "m", "a", "l", "T", "y", "p", "e">>,
   lighting |-> <<"l", "i", "g", "h", "t", "i", "n", "g">>,
   objectsDetected |-> <<"o", "b", "j", "e", "c", "t", "s", "D", "e", "t", "e", "c", "t", "e", "d">>,
   creatureConfidence |-> <<"c", "r", "e", "a", "t", "u", "r", "e", "C", "o", "n", "f", "i", "d", "e", "n", "c", "e">>,
   description |-> <<"d", "e", "s", "c", "r", "i", "p", "t", "i", "o", "n">>,
   dadProfileMatch |-> <<"d", "a", "d", "P", "r", "o", "f", "i", "l", "e", "M", "a", "t", "c", "h">>]
\* the property a key names; a key that is no property of AIAnalysis is "other"
PropertyName(s) ==
  IF \E k \in Keys : KeyText[k] = s
  THEN CHOOSE k \in Keys : KeyText[k] = s
  ELSE "other"

\* JSON.parse.  White space between lexemes is skipped.  The grammar covered:
\* a literal, an array of literals, and an object whose member values are
\* literals or arrays of literals.  A later member replaces an earlier one
\* of the same key.
ParseError == [ok |-> FALSE, value |-> NullData]
Parsed(value) == [ok |-> TRUE, value |-> value]

RECURSIVE ElementsOk(_)
ElementsOk(s) ==
  /\ Len(s) >= 1
  /\ s[1].k = "lit"
  /\ \/ Len(s) = 1
     \/ Len(s) >= 3 /\ s[2].k = "," /\ ElementsOk(SubSeq(s, 3, Len(s)))
ArrayOk(s) ==
  /\ Len(s) >= 2
  /\ s[1].k = "[" /\ s[Len(s)].k = "]"
  /\ Len(s) = 2 \/ ElementsOk(SubSeq(s, 2, Len(s) - 1))

\* the number of lexemes of the value that starts s (0: no value starts s)
ValueLength(s) ==
  IF s = <<>> THEN 0
  ELSE IF s[1].k = "lit" THEN 1
  ELSE IF s[1].k = "[" /\ \E j \in 2..Len(s) : s[j].k = "]"
  THEN LET j == CHOOSE j \in 2..Len(s) :
                  s[j].k = "]" /\ \A i \in 2..(j - 1) : s[i].k # "]"
       IN  IF ArrayOk(SubSeq(s, 1, j)) THEN j ELSE 0
  ELSE 0

RECURSIVE ParseMembers(_, _)
ParseMembers(s, f) ==
  IF Len(s) < 3 \/ s[1].k # "lit" \/ s[1].v.t # "string" \/ s[2].k # ":"
  THEN ParseError
  ELSE
    LET n     == ValueLength(SubSeq(s, 3, Len(s)))
        value == IF s[3].k = "lit" THEN s[3].v ELSE SomeObject
        key   == PropertyName(s[1].v.s)
        g     == IF key \in Keys THEN [f EXCEPT ![key] = value] ELSE f
        rest  == SubSeq(s, 3 + n, Len(s))
    IN  IF n = 0 THEN ParseError
        ELSE IF rest = <<>> THEN Parsed(Obj(g))
        ELSE IF rest[1].k = "," THEN ParseMembers(Tail(rest), g)
        ELSE ParseError

JSONparse(text) ==
  LET s == SelectSeq(text, LAMBDA x : x.k \notin {"nl", "sp"})
  IN  IF s = <<>> THEN ParseError
      ELSE IF Len(s) = 1 /\ s[1].k = "lit"
      THEN Parsed(IF s[1].v.t = "null" THEN NullData ELSE Primitive)
      ELSE IF s[1].k = "["
      THEN (IF ArrayOk(s) THEN Parsed(Primitive) ELSE ParseError)
      ELSE IF s[1].k = "{" /\ s[Len(s)].k = "}"
      THEN (IF Len(s) = 2 THEN Parsed(Obj(EmptyRecord))
            ELSE ParseMembers(SubSeq(s, 2, Len(s) - 1), EmptyRecord))
      ELSE ParseError

\* mutant: a failed parse is not caught
parseAIResponse_noCatch(content) ==
  LET r == JSONparse(Trim(StripFences(content)))
  IN  IF r.ok THEN Return(r.value) ELSE Throw

\* try { return JSON.parse(cleaned) } catch { return {} }
parseAIResponse(content) ==
  LET r == JSONparse(Trim(StripFences(content)))
  IN  IF r.ok THEN Return(r.value) ELSE Return(Obj(EmptyRecord))

\* Response.json writes NaN as null
JsonNumber(v) == IF v.t = "nan" THEN Null ELSE v

Response(status, body) == [status |-> status, body |-> body]
ErrorBody(message) == [error |-> message]

\* The handler.  request.apiKey: OPENAI_API_KEY is set; request.image: the
\* form's image field ("none", a file that is no image, an image);
\* request.upstream: how openai.chat.completions.create ended.
POST(request) ==
  IF ~request.apiKey
  THEN Response(500, ErrorBody("OPENAI_API_KEY not configured. Add it to .env.local"))
  ELSE IF request.image # "image"
  THEN Response(400, ErrorBody("Please upload an image file (JPEG, PNG, etc.)"))
  ELSE IF request.upstream.kind = "error"
  THEN Response(500, ErrorBody("upstream error"))
  ELSE
    LET content == IF request.upstream.hasContent
                   THEN Trim(request.upstream.content)
                   ELSE <<LBrace, RBrace>>
        parsed  == parseAIResponse(content)
        report  == IF parsed.kind = "throw" THEN Throw
                   ELSE generateSquatchReport(parsed.v)
    IN  IF report.kind = "throw"
        THEN Response(500, ErrorBody("TypeError"))
        ELSE Response(200, [aiAnalysis |-> parsed.v,
                            score      |-> JsonNumber(report.v.score),
                            conclusion |-> report.v.conclusion,
                            easterEgg  |-> report.v.easterEgg,
                            dadSquatch |-> report.v.dadSquatch])

(***************************************************************************)
(* The records the engine is called with: what the prompt's schema allows  *)
(* (flags, a blur of 0..10, a confidence in [0,1], label texts), every     *)
(* property present or absent.  A flag that is not true is absent in one   *)
(* family and false or absent in the other.                                *)
(***************************************************************************)
Flags       == {Undefined, True}
Flags3      == {Undefined, True, False}
Blurs       == {Undefined} \cup {Num(b) : b \in 0..MaxBlur}
Confidences == {Undefined} \cup {Frac(k) : k \in 0..Scale}

\* calculateSquatchScore is called with every combination of these
ScoreRecords ==
  { Obj(f) : f \in
      [environment : {Undefined, Str(<<"f", "o", "r", "e", "s", "t">>), Str(<<"I", "n", "d", "o", "o", "r">>),
                      Str(<<"w", "o", "o", "d", "s", " ", "i", "n", "s", "i", "d", "e">>)},
       blurry : Blurs,
       humanoid : Flags, humanoidSquatchLike : Flags, wearingClothes : Flags,
       hairyOrFurry : Flags, knownPrimate : Flags,
       primateType : {Undefined, Str(<<"G", "o", "r", "i", "l", "l", "a">>)},
       animal : Flags,
       animalType : {Undefined, Str(<<"b", "l", "a", "c", "k", " ", "b", "e", "a", "r">>)},
       lighting : {Undefined, Str(<<"B", "r", "i", "g", "h", "t">>), Str(<<"w", "e", "l", "l", "-", "l", "i", "t">>)},
       objectsDetected : {Undefined},
       creatureConfidence : Confidences,
       description : {Undefined},
       dadProfileMatch : {Undefined}] }

\* generateSquatchReport is called with every combination of these
ReportRecords ==
  { Obj(f) : f \in
      [environment : {Undefined, Str(<<"F", "o", "r", "e", "s", "t">>), Str(<<"i", "n", "d", "o", "o", "r", "s">>)},
       blurry : {Undefined, Num(2), Num(9)},
       humanoid : Flags, humanoidSquatchLike : Flags, wearingClothes : Flags3,
       hairyOrFurry : Flags, knownPrimate : Flags3,
       primateType : {Undefined, Str(<<"n", "o", "n", "e">>), Str(<<"B", "a", "b", "o", "o", "n">>)},
       animal : Flags,
       animalType : {Undefined},
       lighting : {Undefined, Str(<<"d", "a", "r", "k">>)},
       objectsDetected : {Undefined},
       creatureConfidence : {Undefined, Frac(Scale)},
       description : {Undefined},
       dadProfileMatch : Flags3] }

(***************************************************************************)
(* The library as a state machine: a caller calls one of its exported      *)
(* functions and gets the result back.  The module keeps no state of its   *)
(* own between calls.                                                      *)
(***************************************************************************)
VARIABLES
  pc,                  \* where the caller, or the evaluation under way, stands
  call,                \* the call under way: function, argument, result
  score,               \* let score of calculateSquatchScore
  applied,             \* the rules whose score += or score -= has run
  earlier,             \* a report the caller got earlier and kept
  image,               \* useState: the selected file
  preview,             \* useState: the object URL of the selected file
  analyzing,           \* useState
  progressIndex,       \* useState
  result,              \* useState
  error,               \* useState
  abortControllerRef,  \* useRef: the controller of the latest run
  runs                 \* the invocations of handleAnalyze, oldest first
evalVars == <<score, applied, earlier>>
pageVars == <<image, preview, analyzing, progressIndex, result, error,
              abortControllerRef, runs>>
vars == <<pc, call, evalVars, pageVars>>

NoCall == [fn |-> "none", arg |-> Undefined, ret |-> Undefined]
Call(fn, arg, ret) == [fn |-> fn, arg |-> arg, ret |-> ret]
\* the caller has kept no report
NoEarlier == [arg |-> Undefined, ret |-> Undefined, later |-> 0, other |-> FALSE]

\* no evaluation has run yet
InitEval == score = Undefined /\ applied = {} /\ earlier = NoEarlier
\* the page as first rendered: the initial values of its useState and useRef
InitPage ==
  /\ image = "null" /\ preview = "null"
  /\ analyzing = FALSE /\ progressIndex = 0
  /\ result = "null" /\ error = "null"
  /\ abortControllerRef = 0
  /\ runs = <<>>

Init == pc = "idle" /\ call = NoCall /\ InitEval /\ InitPage

CalculateSquatchScore ==
  /\ pc = "idle"
  /\ \E data \in ScoreRecords :
       call' = Call("calculateSquatchScore", data, calculateSquatchScore(data))
  /\ pc' = "returned"
  /\ UNCHANGED <<evalVars, pageVars>>

GenerateConclusion ==
  /\ pc = "idle"
  /\ \E s \in 0..100 :
       call' = Call("generateConclusion", Num(s), generateConclusion(Num(s)))
  /\ pc' = "returned"
  /\ UNCHANGED <<evalVars, pageVars>>

GenerateSquatchReport ==
  /\ pc = "idle"
  /\ \E data \in ReportRecords :
       call' = Call("generateSquatchReport", data, generateSquatchReport(data))
  /\ pc' = "returned"
  /\ UNCHANGED <<evalVars, pageVars>>

GetProgressMessage ==
  /\ pc = "idle"
  /\ \E index \in 0..MaxIndex :
       call' = Call("getProgressMessage", index, getProgressMessage(index))
  /\ pc' = "returned"
  /\ UNCHANGED <<evalVars, pageVars>>

\* the caller has its result and may call again
Returned ==
  /\ pc = "returned"
  /\ pc' = "idle"
  /\ call' = NoCall
  /\ UNCHANGED <<evalVars, pageVars>>

Next ==
  \/ GetProgressMessage
  \/ GenerateConclusion
  \/ GenerateSquatchReport
  \/ CalculateSquatchScore
  \/ Returned

Spec == Init /\ [][Next]_vars

(***************************************************************************)
(* The analyze route as a state machine: a request comes in and is         *)
(* answered.  The answers of the vision model that are modelled: an object *)
(* of up to MaxMembers members (well-typed or not), cut short or with a    *)
(* stray comma, or a text that is no object; bare, fenced, or with prose   *)
(* around it.                                                              *)
(***************************************************************************)
Member(key, value) == <<Lit(Str(KeyText[key])), Colon>> \o value
Members ==
  { Member("knownPrimate", <<Lit(True)>>),
    Member("dadProfileMatch", <<Lit(True)>>),
    Member("wearingClothes", <<Lit(Str(<<"f", "a", "l", "s", "e">>))>>),
    Member("environment", <<Lit(Str(<<"f", "o", "r", "e", "s", "t">>))>>),
    Member("environment", <<Lit(Num(5))>>),
    Member("blurry", <<Lit(Str(<<"h", "i", "g", "h">>))>>),
    Member("creatureConfidence", <<Lit(Null)>>),
    Member("creatureConfidence", <<Lit(Str(<<"h", "i", "g", "h">>))>>),
    Member("objectsDetected", <<LBracket, Lit(Str(<<"t", "r", "e", "e">>)), RBracket>>) }

\* the lists of up to n different members
RECURSIVE MemberLists(_)
MemberLists(n) ==
  IF n = 0 THEN {<<>>}
  ELSE LET shorter == MemberLists(n - 1)
       IN  shorter \cup
           { Append(x[1], x[2]) :
               x \in { y \in shorter \X Members :
                         \A i \in 1..Len(y[1]) : y[1][i] # y[2] } }
RECURSIVE Join(_)
Join(l) ==
  IF l = <<>> THEN <<>>
  ELSE IF Len(l) = 1 THEN l[1]
  ELSE l[1] \o <<Comma>> \o Join(Tail(l))

Bodies ==
  LET lists == MemberLists(MaxMembers)
  IN       { <<LBrace>> \o Join(l) \o <<RBrace>> : l \in lists }
      \cup { <<LBrace>> \o Join(l) : l \in lists }
      \cup { <<LBrace>> \o Join(l) \o <<Comma, RBrace>> : l \in lists }
      \cup { <<Lit(Null)>>, <<Lit(Num(7))>>, <<Lit(Str(<<"f", "o", "r", "e", "s", "t">>))>>,
             <<LBracket, RBracket>>, <<LBracket, Lit(Num(7)), RBracket>>,
             <<>>, <<Word, SP, Word>> }

Wrappings(b) ==
  { b,
    <<SP>> \o b \o <<NL>>,
    <<FenceJson, NL>> \o b \o <<NL, Fence>>,
    <<Fence, NL>> \o b \o <<NL, Fence>>,
    <<Word, NL, FenceJson, NL>> \o b \o <<NL, Fence>> }

Contents == UNION { Wrappings(b) : b \in Bodies }

Upstreams ==
  { [kind |-> "error", hasContent |-> FALSE, content |-> <<>>],
    [kind |-> "completion", hasContent |-> FALSE, content |-> <<>>] }
  \cup { [kind |-> "completion", hasContent |-> TRUE, content |-> c] :
           c \in Contents }

Requests ==
  [apiKey : BOOLEAN, image : {"none", "other", "image"}, upstream : Upstreams]

Post ==
  /\ pc = "idle"
  /\ \E request \in Requests :
       call' = Call("POST", request, POST(request))
  /\ pc' = "returned"
  /\ UNCHANGED <<evalVars, pageVars>>

NextRoute ==
  \/ Post
  \/ Returned

SpecRoute == Init /\ [][NextRoute]_vars

(***************************************************************************)
(* generateSquatchReport statement by statement: the override test, then   *)
(* calculateSquatchScore with its accumulator score updated one rule at a  *)
(* time in the order of the source, then the conclusion and the report.    *)
(* The records are objects of the schema, for which no statement throws    *)
(* (the TypeErrors are those of calculateSquatchScore above).              *)
(***************************************************************************)
\* The caller makes up to MaxLater calls after the report it kept (earlier.later
\* counts them; earlier.other: one of them was on another record).
MaxLater == 2

\* the const declarations at the head of calculateSquatchScore
Locals(data) ==
  [env         |-> toLowerCase(Label(data.f.environment).s),
   blurry      |-> Coalesce(data.f.blurry, Num(0)),
   lighting    |-> toLowerCase(Label(data.f.lighting).s),
   animalType  |-> toLowerCase(Label(data.f.animalType).s),
   primateType |-> toLowerCase(Label(data.f.primateType).s)]

\* mutant: the accumulator is declared once for the module and goes on from
\* the value the evaluation before left in it
declareScore_hoisted(previous) ==
  IF previous.t = "number" THEN previous ELSE Num(10)

\* let score = 10: a new binding for each evaluation, whatever an evaluation
\* before left
declareScore(previous) == Num(10)

\* mutant: the accumulator is clamped after each rule
accumulate_clamped(acc, amount) == clamp(Add(acc, amount))

\* score += amount and score -= amount
accumulate(acc, amount) == Add(acc, amount)

\* mutant: only the knownPrimate flag closes the gate
humanoidGate_flagOnly(d, primateType) == ~Truthy(d.knownPrimate)

\* if (!data.knownPrimate && !isKnownPrimateType)
humanoidGate(d, primateType) ==
  ~Truthy(d.knownPrimate) /\ ~isKnownPrimateType(primateType)

\* what the picture shows around the creature, in the records below
Scenes ==
  { [environment |-> Undefined, lighting |-> Undefined,
     animal |-> Undefined, creatureConfidence |-> Undefined],
    [environment |-> Str(<<"f", "o", "r", "e", "s", "t">>), lighting |-> Undefined,
     animal |-> True, creatureConfidence |-> Frac(Scale)],
    [environment |-> Undefined, lighting |-> Str(<<"B", "r", "i", "g", "h", "t">>),
     animal |-> Undefined, creatureConfidence |-> Frac(1)] }
\* the primate labels of the records below: absent, each word of the
\* vocabulary in some case, alone or inside a longer label, and a label that
\* holds none of them
PrimateLabels ==
  { Undefined,
    Str(<<"O", "r", "a", "n", "g", "u", "t", "a", "n">>),
    Str(<<"G", "o", "r", "i", "l", "l", "a">>),
    Str(<<"c", "h", "i", "m", "p", "a", "n", "z", "e", "e">>),
    Str(<<"C", "h", "i", "m", "p">>),
    Str(<<"h", "o", "w", "l", "e", "r", " ", "m", "o", "n", "k", "e", "y">>),
    Str(<<"G", "I", "B", "B", "O", "N">>),
    Str(<<"b", "a", "b", "o", "o", "n", "s">>),
    Str(<<"h", "u", "m", "a", "n">>) }

\* the records of the statement-by-statement evaluations
EvalRecords ==
  { Obj([k \in Keys |->
           IF k \in DOMAIN scene THEN scene[k]
           ELSE IF k \in DOMAIN creature THEN creature[k]
           ELSE Undefined]) :
      scene \in Scenes,
      creature \in
        [blurry : {Undefined, Num(2), Num(9)},
         humanoid : Flags, humanoidSquatchLike : Flags, wearingClothes : Flags,
         hairyOrFurry : Flags, knownPrimate : Flags,
         primateType : PrimateLabels,
         dadProfileMatch : Flags] }

\* the records of the sequences of calls
CallRecords ==
  { Obj([EmptyRecord EXCEPT !.humanoidSquatchLike = f[1],
                            !.wearingClothes = f[2],
                            !.knownPrimate = f[3],
                            !.dadProfileMatch = f[4]]) :
      f \in Flags \X Flags \X Flags \X Flags }

\* generateSquatchReport(aiAnalysis) is called
Enter(records) ==
  /\ pc = "idle"
  /\ earlier = NoEarlier \/ earlier.later < MaxLater
  /\ \E data \in records :
       /\ call' = Call("generateSquatchReport", data, Undefined)
       /\ earlier' = IF earlier = NoEarlier THEN earlier
                     ELSE [earlier EXCEPT !.later = @ + 1,
                                          !.other = @ \/ data # earlier.arg]
  /\ pc' = "dadProfileMatch"
  /\ UNCHANGED <<score, applied, pageVars>>
EnterEval  == Enter(EvalRecords)
EnterCalls == Enter(CallRecords)

\* if (aiAnalysis.dadProfileMatch) return {...};
\* else calculateSquatchScore(aiAnalysis) is entered: let score = 10
CheckDadProfileMatch ==
  /\ pc = "dadProfileMatch"
  /\ IF Truthy(call.arg.f.dadProfileMatch)
     THEN /\ call' = [call EXCEPT !.ret =
                        Return(Report(Num(100),
                                      "Definitely a squatch, no explanation needed.",
                                      True))]
          /\ pc' = "returned"
          /\ UNCHANGED <<score, applied>>
     ELSE /\ score' = declareScore(score)
          /\ applied' = {}
          /\ pc' = "knownPrimate"
          /\ UNCHANGED call
  /\ UNCHANGED <<earlier, pageVars>>

\* The statement(s) of one rule: amount is what they add to score (0 when
\* none of them runs; what a rule adds when it runs is never 0).
Rule(at, next, amount) ==
  /\ pc = at
  /\ score' = accumulate(score, Num(amount))
  /\ applied' = IF amount # 0 THEN applied \cup {at} ELSE applied
  /\ pc' = next
  /\ UNCHANGED <<call, earlier, pageVars>>

KnownPrimate ==
  Rule("knownPrimate", "primateType",
       knownPrimatePenalty(call.arg.f, Locals(call.arg).blurry))

PrimateType ==
  Rule("primateType", "environment",
       primateTypePenalty(call.arg.f, Locals(call.arg).blurry,
                          Locals(call.arg).primateType))

Environment ==
  Rule("environment", "wearingClothes", environmentScore(Locals(call.arg).env))

WearingClothes ==
  Rule("wearingClothes", "humanoidSquatchLike", clothesPenalty(call.arg.f))

HumanoidSquatchLike ==
  Rule("humanoidSquatchLike", "hairyHumanoid",
       IF humanoidGate(call.arg.f, Locals(call.arg).primateType)
       THEN squatchLikeBonus(call.arg.f) ELSE 0)

HairyHumanoid ==
  Rule("hairyHumanoid", "genericHumanoid",
       IF humanoidGate(call.arg.f, Locals(call.arg).primateType)
       THEN hairyHumanoidBonus(call.arg.f) ELSE 0)

GenericHumanoid ==
  Rule("genericHumanoid", "blurry",
       IF humanoidGate(call.arg.f, Locals(call.arg).primateType)
       THEN genericHumanoidBonus(call.arg.f) ELSE 0)

Blurry ==
  Rule("blurry", "animal",
       blurScore(Locals(call.arg).blurry, Locals(call.arg).lighting))

Animal ==
  Rule("animal", "lighting",
       animalScore(call.arg.f, Locals(call.arg).animalType))

Lighting ==
  Rule("lighting", "creatureConfidence",
       lightingPenalty(Locals(call.arg).lighting))

\* if (data.creatureConfidence !== undefined) score += Math.round(... * 15)
CreatureConfidence ==
  /\ pc = "creatureConfidence"
  /\ score' = accumulate(score, confidenceScore(call.arg.f))
  /\ applied' = IF call.arg.f.creatureConfidence.t # "undefined"
                THEN applied \cup {"creatureConfidence"} ELSE applied
  /\ pc' = "clamp"
  /\ UNCHANGED <<call, earlier, pageVars>>

\* return Math.max(0, Math.min(100, score)), and back in
\* generateSquatchReport: the conclusion of that score, and the report
ReturnReport ==
  /\ pc = "clamp"
  /\ call' = [call EXCEPT !.ret =
                Return(Report(clamp(score), generateConclusion(clamp(score)),
                              Undefined))]
  /\ pc' = "returned"
  /\ UNCHANGED <<score, applied, earlier, pageVars>>

\* the caller keeps the report it just got, to compare later ones with
Remember ==
  /\ pc = "returned"
  /\ earlier = NoEarlier
  /\ earlier' = [arg |-> call.arg, ret |-> call.ret, later |-> 0, other |-> FALSE]
  /\ UNCHANGED <<pc, call, score, applied, pageVars>>

\* one evaluation
NextEval ==
  \/ EnterEval
  \/ CheckDadProfileMatch
  \/ KnownPrimate
  \/ PrimateType
  \/ Environment
  \/ WearingClothes
  \/ HumanoidSquatchLike
  \/ HairyHumanoid
  \/ GenericHumanoid
  \/ Blurry
  \/ Animal
  \/ Lighting
  \/ CreatureConfidence
  \/ ReturnReport

SpecEval == Init /\ [][NextEval]_vars

\* calls one after the other
NextCalls ==
  \/ EnterCalls
  \/ CheckDadProfileMatch
  \/ KnownPrimate
  \/ PrimateType
  \/ Environment
  \/ WearingClothes
  \/ HumanoidSquatchLike
  \/ HairyHumanoid
  \/ GenericHumanoid
  \/ Blurry
  \/ Animal
  \/ Lighting
  \/ CreatureConfidence
  \/ ReturnReport
  \/ Remember
  \/ Returned

SpecCalls == Init /\ [][NextCalls]_vars

(***************************************************************************)
(* src/src/app/page.tsx: the upload page.  Its state is the useState       *)
(* values and the ref; each invocation of handleAnalyze is a run with its  *)
(* own AbortController and progress timer, suspended at one of its two     *)
(* awaits until the network settles it.  A handler, and a run between two  *)
(* awaits, executes in one step.  The handlers are enabled as the rendered *)
(* page enables them.  AbortController.abort() rejects the promise the run *)
(* awaits; the run resumes in the microtask that follows, before any       *)
(* other event, timer or network task.                                     *)
(***************************************************************************)
\* handleAnalyze is invoked up to MaxRuns times.
MaxRuns == 2
\* The progress timer of a run fires up to MaxTicks times.
MaxTicks == 1

libVars == <<pc, call, evalVars>>

\* a run right after fetch() is called
NewRun ==
  [at |-> "fetch", aborted |-> FALSE, interval |-> TRUE, ticks |-> 0,
   res |-> [ok |-> FALSE, json |-> FALSE], exit |-> "none"]
\* the run awaits fetch() or res.text()
InFlight(run) == run.at \in {"fetch", "text"}
\* no run is waiting to resume from a rejected await
NoMicrotask == \A r \in 1..Len(runs) : runs[r].at # "rejected"

\* mutant: the controller is not aborted
abort_none(rs, ref) == rs

\* abortControllerRef.current?.abort(): the signal is aborted, and the
\* promise a run awaits with that signal is rejected with an AbortError
abort(rs, ref) ==
  IF ref = 0 THEN rs
  ELSE [rs EXCEPT ![ref] =
          [rs[ref] EXCEPT !.aborted = TRUE,
                          !.at = IF InFlight(rs[ref]) THEN "rejected" ELSE rs[ref].at]]

\* mutant: the catch does not tell an abort from a failure
catchError_noAbortTest(name, message, current) == message

\* catch (err): if (err.name === "AbortError") return; setError(err.message)
\* gives the value of error
catchError(name, message, current) ==
  IF name = "AbortError" THEN current ELSE message

\* mutant: the cleanup follows the try statement, so a return inside the try
\* statement leaves without it
Finally_afterTry(exit) == exit \notin {"parse", "abort"}

\* finally { ... }: runs on every way out of the try statement
Finally(exit) == TRUE

\* lines 103-127, once res.text() has given the body: the way out of the try
\* statement, and the values of result and error
afterText(res, body, currentResult, currentError) ==
  IF res.json /\ body = "garbage"
  THEN [exit |-> "parse", result |-> currentResult,
        error |-> IF res.ok THEN "Invalid response from server"
                  ELSE "Server error (500). Try a smaller image or check your API key. Check the terminal for details."]
  ELSE LET data == IF res.json THEN (IF res.ok THEN "report" ELSE "error body")
                   ELSE "Server error. Response was not JSON."
       IN  IF ~res.ok
           THEN [exit |-> "http", result |-> currentResult,
                 error |-> catchError("Error", data, currentError)]
           ELSE [exit |-> IF res.json THEN "success" ELSE "not json",
                 result |-> data, error |-> currentError]

handleRemoveImage ==
  /\ NoMicrotask
  /\ preview # "null"
  /\ runs' = abort(runs, abortControllerRef)
  /\ image' = "null"
  /\ preview' = "null"
  /\ result' = "null"
  /\ error' = "null"
  /\ analyzing' = FALSE
  /\ UNCHANGED <<progressIndex, abortControllerRef, libVars>>

\* file: e.target.files?.[0], no file, an image or another file
handleFileChange ==
  /\ NoMicrotask
  /\ ~analyzing
  /\ preview = "null"
  /\ \E file \in {"none", "image", "other"} :
       /\ result' = "null"
       /\ CASE file = "image" ->
                 /\ error' = "null"
                 /\ image' = "file"
                 /\ preview' = "blob:"
            [] file = "other" ->
                 /\ error' = "Please select an image file (JPEG, PNG, GIF, WebP)"
                 /\ image' = "null"
                 /\ preview' = "null"
            [] file = "none" ->
                 /\ error' = "null"
                 /\ UNCHANGED <<image, preview>>
  /\ UNCHANGED <<analyzing, progressIndex, abortControllerRef, runs, libVars>>

\* up to the await of fetch()
handleAnalyze ==
  /\ NoMicrotask
  /\ image # "null" /\ ~analyzing
  /\ Len(runs) < MaxRuns
  /\ analyzing' = TRUE
  /\ result' = "null"
  /\ error' = "null"
  /\ abortControllerRef' = Len(runs) + 1
  /\ runs' = Append(runs, NewRun)
  /\ UNCHANGED <<image, preview, progressIndex, libVars>>

\* the callback of setInterval of run r
Tick(r) ==
  /\ NoMicrotask
  /\ r \in 1..Len(runs)
  /\ runs[r].interval
  /\ runs[r].ticks < MaxTicks
  /\ progressIndex' = progressIndex + 1
  /\ runs' = [runs EXCEPT ![r].ticks = @ + 1]
  /\ UNCHANGED <<image, preview, analyzing, result, error, abortControllerRef,
                 libVars>>

\* run r leaves the try statement by exit, with these values of result and
\* error, through the finally block
Leave(r, exit, newResult, newError) ==
  /\ runs' = [runs EXCEPT ![r] =
                [runs[r] EXCEPT !.at = "done", !.exit = exit,
                                !.interval = IF Finally(exit) THEN FALSE
                                             ELSE runs[r].interval]]
  /\ analyzing' = IF Finally(exit) THEN FALSE ELSE analyzing
  /\ progressIndex' = IF Finally(exit) THEN 0 ELSE progressIndex
  /\ result' = newResult
  /\ error' = newError
  /\ UNCHANGED <<image, preview, abortControllerRef, libVars>>

\* fetch() of run r settles: it is rejected (the network failed), or it
\* gives a response, and the run goes on to await res.text()
FetchSettles(r) ==
  /\ NoMicrotask
  /\ r \in 1..Len(runs)
  /\ runs[r].at = "fetch"
  /\ \/ Leave(r, "network", result, catchError("TypeError", "Failed to fetch", error))
     \/ \E ok \in BOOLEAN, json \in BOOLEAN :
          /\ runs' = [runs EXCEPT ![r] =
                        [runs[r] EXCEPT !.at = "text",
                                        !.res = [ok |-> ok, json |-> json]]]
          /\ UNCHANGED <<image, preview, analyzing, progressIndex, result, error,
                         abortControllerRef, libVars>>

\* res.text() of run r settles: it is rejected (the network failed), or it
\* gives the body, a JSON text or not
TextSettles(r) ==
  /\ NoMicrotask
  /\ r \in 1..Len(runs)
  /\ runs[r].at = "text"
  /\ \/ Leave(r, "network", result, catchError("TypeError", "Failed to fetch", error))
     \/ \E body \in {"json", "garbage"} :
          LET out == afterText(runs[r].res, body, result, error)
          IN  Leave(r, out.exit, out.result, out.error)

\* run r resumes from the await that abort() rejected
AbortSettles(r) ==
  /\ r \in 1..Len(runs)
  /\ runs[r].at = "rejected"
  /\ Leave(r, "abort", result,
           catchError("AbortError", "The operation was aborted.", error))

NextPage ==
  \/ handleFileChange
  \/ handleAnalyze
  \/ handleRemoveImage
  \/ \E r \in 1..MaxRuns : Tick(r)
  \/ \E r \in 1..MaxRuns : FetchSettles(r)
  \/ \E r \in 1..MaxRuns : TextSettles(r)
  \/ \E r \in 1..MaxRuns : AbortSettles(r)

SpecPage == Init /\ [][NextPage]_vars

(***************************************************************************)
(* Properties of the library.                                              *)
(***************************************************************************)
ScoreCall  == pc = "returned" /\ call.fn = "calculateSquatchScore"
ReportCall == pc = "returned" /\ call.fn = "generateSquatchReport"
\* the score calculateSquatchScore returns for data, as a number value
ScoreOf(data) == calculateSquatchScore(data).v
\* v is the integer i
IsInt(v, i) == v.t = "number" /\ v.n = i * Scale

FiveConclusions ==
  {"Highly probable Squatch encounter", "Suspiciously Squatchy",
   "Inconclusive - classic blurry evidence", "Probably not a Squatch",
   "Definitely not a Squatch"}
OverrideConclusion == "Definitely a squatch, no explanation needed."

\* C1: calculateSquatchScore returns, for every record, an integer s with
\* 0 <= s <= 100.
C1_ScoreInRange ==
  ScoreCall =>
    /\ call.ret.kind = "return"
    /\ call.ret.v.t = "number"
    /\ call.ret.v.n % Scale = 0
    /\ 0 <= call.ret.v.n /\ call.ret.v.n <= 100 * Scale
\* a call whose accumulated sum is above 100 and comes back as 100
C1_Witness ==
  /\ ScoreCall
  /\ accumulated(call.arg).n > 100 * Scale
  /\ IsInt(call.ret.v, 100)

\* C2: generateConclusion maps 81..100, 61..80, 41..60, 21..40 and 0..20 to the
\* five conclusions, each boundary 20, 40, 60, 80 falling in the lower bracket.
C2_Brackets ==
  (pc = "returned" /\ call.fn = "generateConclusion") =>
    LET s == call.arg.n \div Scale
        c == call.ret
    IN  /\ (c = "Highly probable Squatch encounter") <=> (s > 80)
        /\ (c = "Suspiciously Squatchy") <=> (60 < s /\ s <= 80)
        /\ (c = "Inconclusive - classic blurry evidence") <=> (40 < s /\ s <= 60)
        /\ (c = "Probably not a Squatch") <=> (20 < s /\ s <= 40)
        /\ (c = "Definitely not a Squatch") <=> (s <= 20)
\* the boundary 80 is answered with the lower bracket
C2_Witness ==
  /\ pc = "returned" /\ call.fn = "generateConclusion"
  /\ IsInt(call.arg, 80)
  /\ call.ret = "Suspiciously Squatchy"

\* C3: a record whose dadProfileMatch is true gets score 100, the override
\* conclusion and dadSquatch true, whatever its other properties are.
C3_Override ==
  (ReportCall /\ call.arg.f.dadProfileMatch = True) =>
    call.ret = Return(Report(Num(100), OverrideConclusion, True))
\* an overridden record that the scoring rules alone would put at 0
C3_Witness ==
  /\ ReportCall
  /\ call.arg.f.dadProfileMatch = True
  /\ call.arg.f.knownPrimate = True
  /\ call.arg.f.wearingClothes = True
  /\ call.arg.f.environment = Str(<<"i", "n", "d", "o", "o", "r", "s">>)
  /\ IsInt(ScoreOf(call.arg), 0)
  /\ IsInt(call.ret.v.score, 100)

\* C4 as stated: every report's conclusion is one of the five bracket
\* conclusions and equals generateConclusion of the report's score.
C4_ConclusionFromScore ==
  ReportCall =>
    /\ call.ret.kind = "return"
    /\ call.ret.v.conclusion \in FiveConclusions
    /\ call.ret.v.conclusion = generateConclusion(call.ret.v.score)
\* C4 amended: that holds for every record whose dadProfileMatch is not true;
\* with dadProfileMatch true the conclusion is the override conclusion, which
\* is none of the five.
C4_ConclusionFromScoreUnlessOverride ==
  ReportCall =>
    /\ call.ret.kind = "return"
    /\ IF Truthy(call.arg.f.dadProfileMatch)
       THEN /\ call.ret.v.conclusion = OverrideConclusion
            /\ call.ret.v.conclusion \notin FiveConclusions
       ELSE /\ call.ret.v.conclusion \in FiveConclusions
            /\ call.ret.v.conclusion = generateConclusion(call.ret.v.score)
            /\ call.ret.v.score = ScoreOf(call.arg)
\* a report that is not overridden, in a middle bracket
C4_Witness ==
  /\ ReportCall
  /\ call.arg.f.dadProfileMatch = False
  /\ call.ret.v.conclusion = "Suspiciously Squatchy"

\* the record data with its blur set to b
WithBlur(data, b) == Obj([data.f EXCEPT !.blurry = Num(b)])

\* C5 as stated: with knownPrimate true, the record with blur 2 scores
\* strictly lower than the same record with blur 8.
C5_StrictlyLower ==
  (ScoreCall /\ call.arg.f.knownPrimate = True /\ call.arg.f.blurry = Num(2)) =>
    call.ret.v.n < ScoreOf(WithBlur(call.arg, 8)).n
\* C5 amended: it never scores higher, and scores strictly lower whenever the
\* blur-8 record scores above 0 (otherwise both are clamped to 0).
C5_LowerUnlessBothZero ==
  (ScoreCall /\ call.arg.f.knownPrimate = True /\ call.arg.f.blurry = Num(2)) =>
    LET s8 == ScoreOf(WithBlur(call.arg, 8))
    IN  /\ call.ret.v.n <= s8.n
        /\ (s8.n > 0 => call.ret.v.n < s8.n)
\* a known-primate record with blur 2 whose blur-8 twin scores above 0
C5_Witness ==
  /\ ScoreCall
  /\ call.arg.f.knownPrimate = True
  /\ call.arg.f.blurry = Num(2)
  /\ call.ret.v.n < ScoreOf(WithBlur(call.arg, 8)).n

\* the record data with humanoidSquatchLike true and wearingClothes w
SquatchLikeUnclothed(data, w) ==
  Obj([data.f EXCEPT !.humanoidSquatchLike = True, !.wearingClothes = w])

\* C6 as stated: a record with wearingClothes true and environment "forest"
\* scores lower than the same record with humanoidSquatchLike true and
\* wearingClothes not true.
C6_ClothedLower ==
  (/\ ScoreCall
   /\ call.arg.f.wearingClothes = True
   /\ call.arg.f.environment = Str(<<"f", "o", "r", "e", "s", "t">>)) =>
    \A w \in {Undefined, False} :
      call.ret.v.n < ScoreOf(SquatchLikeUnclothed(call.arg, w)).n
\* C6 amended: it never scores higher, and scores strictly lower whenever the
\* unclothed squatch-like record scores above 0 and the clothed one below 100
\* (otherwise both are clamped to the same end of the range).
C6_ClothedLowerUnlessClamped ==
  (/\ ScoreCall
   /\ call.arg.f.wearingClothes = True
   /\ call.arg.f.environment = Str(<<"f", "o", "r", "e", "s", "t">>)) =>
    \A w \in {Undefined, False} :
      LET other == ScoreOf(SquatchLikeUnclothed(call.arg, w))
      IN  /\ call.ret.v.n <= other.n
          /\ (other.n > 0 /\ call.ret.v.n < 100 * Scale) => call.ret.v.n < other.n
\* a clothed forest record that scores strictly below its unclothed
\* squatch-like twin
C6_Witness ==
  /\ ScoreCall
  /\ call.arg.f.wearingClothes = True
  /\ call.arg.f.environment = Str(<<"f", "o", "r", "e", "s", "t">>)
  /\ call.ret.v.n < ScoreOf(SquatchLikeUnclothed(call.arg, Undefined)).n

\* C7: the empty record gets score 10 and "Definitely not a Squatch", with
\* neither dadSquatch nor easterEgg set.
C7_EmptyRecord ==
  (ReportCall /\ call.arg = Obj(EmptyRecord)) =>
    /\ call.ret.kind = "return"
    /\ IsInt(call.ret.v.score, 10)
    /\ call.ret.v.conclusion = "Definitely not a Squatch"
    /\ call.ret.v.dadSquatch = Undefined
    /\ call.ret.v.easterEgg = Undefined
\* the report of the empty record
C7_Witness ==
  /\ ReportCall
  /\ call.arg = Obj(EmptyRecord)
  /\ call.ret.kind = "return"

\* C10: getProgressMessage(i) is the message at position i mod 9 of the 9
\* messages, never undefined, and equals getProgressMessage(i + 9).
C10_ProgressCycle ==
  (pc = "returned" /\ call.fn = "getProgressMessage") =>
    /\ Len(PROGRESS_MESSAGES) = 9
    /\ call.ret = PROGRESS_MESSAGES[(call.arg % 9) + 1]
    /\ call.ret # "undefined"
    /\ call.ret = getProgressMessage(call.arg + 9)
\* an index past the end of the list that wraps around
C10_Witness ==
  /\ pc = "returned" /\ call.fn = "getProgressMessage"
  /\ call.arg = 9 + 4
  /\ call.ret = PROGRESS_MESSAGES[5]

(***************************************************************************)
(* Properties of the analyze route.                                        *)
(***************************************************************************)
\* a request that got as far as an answer of the vision model
PostCall ==
  /\ pc = "returned" /\ call.fn = "POST"
  /\ call.arg.apiKey
  /\ call.arg.image = "image"
  /\ call.arg.upstream.kind = "completion"
\* the text handed to JSON.parse, for an answer that has content
Cleaned(request) == Trim(StripFences(Trim(request.upstream.content)))
\* what the handler hands to generateSquatchReport
Handed(request) ==
  IF request.upstream.hasContent
  THEN parseAIResponse(Trim(request.upstream.content)).v
  ELSE Obj(EmptyRecord)

\* a property value of the type and range the schema gives the property
ValidField(k, v) ==
  CASE k \in {"humanoid", "humanoidSquatchLike", "wearingClothes",
              "hairyOrFurry", "knownPrimate", "animal", "dadProfileMatch"}
         -> v.t = "boolean"
    [] k \in {"environment", "primateType", "animalType", "lighting",
              "description"}
         -> v.t = "string"
    [] k = "blurry"
         -> v.t = "number" /\ 0 <= v.n /\ v.n <= MaxBlur * Scale
    [] k = "creatureConfidence"
         -> v.t = "number" /\ 0 <= v.n /\ v.n <= Scale
    [] OTHER
         -> v.t = "object"
\* the record in which each invalid property is absent
Sanitized(data) ==
  IF data.t # "object" THEN Obj(EmptyRecord)
  ELSE Obj([k \in Keys |->
              IF ValidField(k, data.f[k]) THEN data.f[k] ELSE Undefined])

\* C8: whatever value the parser hands to generateSquatchReport, the call
\* raises no error and returns the report of the record in which each
\* invalid property is absent.
C8_MalformedTolerated ==
  PostCall =>
    LET report == generateSquatchReport(Handed(call.arg))
    IN  /\ report.kind = "return"
        /\ report = generateSquatchReport(Sanitized(Handed(call.arg)))
        /\ call.ret.status = 200

\* C9: when the answer has no content, or its text with the fences stripped
\* is no JSON, the route answers 200 with the empty record and its report:
\* score 10, "Definitely not a Squatch".
C9_ParseFailureGivesBaseline ==
  (/\ PostCall
   /\ \/ ~call.arg.upstream.hasContent
      \/ ~JSONparse(Cleaned(call.arg)).ok) =>
    /\ call.ret.status = 200
    /\ call.ret.body.aiAnalysis = Obj(EmptyRecord)
    /\ IsInt(call.ret.body.score, 10)
    /\ call.ret.body.conclusion = "Definitely not a Squatch"
\* a fenced answer cut short before its closing brace, answered with 200
C9_Witness ==
  /\ PostCall
  /\ call.arg.upstream.hasContent
  /\ call.arg.upstream.content # <<>>
  /\ call.arg.upstream.content[1] = FenceJson
  /\ Len(Cleaned(call.arg)) > 1
  /\ ~JSONparse(Cleaned(call.arg)).ok
  /\ call.ret.status = 200

(***************************************************************************)
(* Properties of the statement-by-statement evaluation.                    *)
(***************************************************************************)
\* a call of generateSquatchReport has returned
EvalReturned == pc = "returned" /\ call.fn = "generateSquatchReport"
\* the call that returned went through calculateSquatchScore
Scored == EvalReturned /\ ~Truthy(call.arg.f.dadProfileMatch)

\* a later call on the record of the report that was kept returns that report
SameReport ==
  (EvalReturned /\ earlier.later > 0 /\ call.arg = earlier.arg) =>
    call.ret = earlier.ret
\* from the call to the return, the record is what it was
RecordKept == (pc # "idle" /\ pc' # "idle") => call'.arg = call.arg

\* C11: in any sequence of calls of generateSquatchReport, calls on other
\* records in between included, two calls on the same record return the same
\* report, and no step of a call changes the record it was given.
C11_Deterministic == [](SameReport) /\ [][RecordKept]_vars
\* the second call after the kept report returns it again, on a record that
\* is scored by the rules, with a call on another record in between
C11_Witness ==
  /\ EvalReturned
  /\ earlier.later = 2
  /\ earlier.other
  /\ call.arg = earlier.arg
  /\ call.ret = earlier.ret
  /\ ~Truthy(call.arg.f.dadProfileMatch)
  /\ applied # {}

\* the rules, in the order of the source
RuleOrder ==
  <<"knownPrimate", "primateType", "environment", "wearingClothes",
    "humanoidSquatchLike", "hairyHumanoid", "genericHumanoid", "blurry",
    "animal", "lighting", "creatureConfidence">>
\* where the evaluation stands once all the rules have run
AfterRules == <<"clamp">>
\* what a rule contributes to the score of a record, whatever ran before it
Contribution(rule, data) ==
  LET d == data.f
      l == Locals(data)
      open == ~Truthy(d.knownPrimate) /\ ~isKnownPrimateType(l.primateType)
  IN  CASE rule = "knownPrimate"   -> Num(knownPrimatePenalty(d, l.blurry))
        [] rule = "primateType"    -> Num(primateTypePenalty(d, l.blurry, l.primateType))
        [] rule = "environment"    -> Num(environmentScore(l.env))
        [] rule = "wearingClothes" -> Num(clothesPenalty(d))
        [] rule = "humanoidSquatchLike" -> Num(IF open THEN squatchLikeBonus(d) ELSE 0)
        [] rule = "hairyHumanoid"   -> Num(IF open THEN hairyHumanoidBonus(d) ELSE 0)
        [] rule = "genericHumanoid" -> Num(IF open THEN genericHumanoidBonus(d) ELSE 0)
        [] rule = "blurry"          -> Num(blurScore(l.blurry, l.lighting))
        [] rule = "animal"          -> Num(animalScore(d, l.animalType))
        [] rule = "lighting"        -> Num(lightingPenalty(l.lighting))
        [] rule = "creatureConfidence" -> confidenceScore(d)
\* the contributions of the rules from..to, summed from the last to the first
RECURSIVE SumBackwards(_, _, _)
SumBackwards(data, from, to) ==
  IF to < from THEN Num(0)
  ELSE Add(Contribution(RuleOrder[to], data), SumBackwards(data, from, to - 1))
\* the reference: the base of 10 added last, one clamp at the end
ReferenceScore(data) ==
  clamp(Add(SumBackwards(data, 1, Len(RuleOrder)), Num(10)))

\* C12: the returned score is clamp(10 + the sum of the contributions of all
\* the rules), the contributions summed in another order than the source's
\* and clamped once at the end; and before the return statement the
\* accumulator is the plain sum so far, below 0 or above 100 included.
C12_ClampOnceAtEnd ==
  /\ Scored => call.ret.v.score = ReferenceScore(call.arg)
  /\ \A i \in 1..(Len(RuleOrder) + 1) :
       pc = (RuleOrder \o AfterRules)[i] =>
         score = Add(Num(10), SumBackwards(call.arg, 1, i - 1))
\* the accumulator is below 0 after the clothing penalty, and the bonuses
\* that follow bring the returned score above 0
C12_Witness ==
  /\ pc = "humanoidSquatchLike"
  /\ score.n < 0
  /\ ReferenceScore(call.arg).n > 0
  /\ ScoreOf(call.arg).n > 0

\* the record data with the three humanoid signals absent
WithoutHumanoidSignals(data) ==
  Obj([data.f EXCEPT !.humanoidSquatchLike = Undefined,
                     !.hairyOrFurry = Undefined,
                     !.humanoid = Undefined])
\* knownPrimate is true, or the primate label holds a word of the vocabulary
Suppressed(data) ==
  \/ data.f.knownPrimate = True
  \/ \E w \in { <<"o", "r", "a", "n", "g", "u", "t", "a", "n">>,
                <<"g", "o", "r", "i", "l", "l", "a">>,
                <<"c", "h", "i", "m", "p", "a", "n", "z", "e", "e">>,
                <<"c", "h", "i", "m", "p">>,
                <<"m", "o", "n", "k", "e", "y">>,
                <<"g", "i", "b", "b", "o", "n">>,
                <<"b", "a", "b", "o", "o", "n">> } :
       includes(toLowerCase(Label(data.f.primateType).s), w)
HumanoidRules == {"humanoidSquatchLike", "hairyHumanoid", "genericHumanoid"}

\* C13: when knownPrimate is true or the primate label holds one of
\* orangutan, gorilla, chimpanzee, chimp, monkey, gibbon, baboon in any case,
\* none of the three humanoid bonuses is applied, and the score is that of
\* the record without humanoidSquatchLike, hairyOrFurry and humanoid.
C13_SuppressionGate ==
  (Scored /\ Suppressed(call.arg)) =>
    /\ applied \cap HumanoidRules = {}
    /\ call.ret.v.score = ScoreOf(WithoutHumanoidSignals(call.arg))
\* a record with the label Gorilla, knownPrimate absent and all three signals
\* set, whose score is not clamped to 0
C13_Witness ==
  /\ Scored
  /\ call.arg.f.knownPrimate = Undefined
  /\ call.arg.f.primateType = Str(<<"G", "o", "r", "i", "l", "l", "a">>)
  /\ call.arg.f.humanoidSquatchLike = True
  /\ call.arg.f.hairyOrFurry = True
  /\ call.arg.f.humanoid = True
  /\ call.ret.v.score.n > 0
  /\ applied \cap HumanoidRules = {}

\* the record has knownPrimate true and a label of the vocabulary
BothPrimateSigns(data) ==
  /\ data.f.knownPrimate = True
  /\ isKnownPrimateType(Locals(data).primateType)

\* C14 as stated: for a record with knownPrimate true and a primate label of
\* the vocabulary, the known-primate penalty and the label penalty are both
\* subtracted in one evaluation.
C14_BothPenalties ==
  (pc = "clamp" /\ BothPrimateSigns(call.arg)) =>
    {"knownPrimate", "primateType"} \subseteq applied
\* C14 amended: in no evaluation are both penalties subtracted.  For a record
\* with knownPrimate true and a label of the vocabulary only the known-primate
\* penalty (70 or 50) is; the label penalty (65 or 45) is subtracted only
\* when knownPrimate is not true.
C14_NeverBothPenalties ==
  /\ ~({"knownPrimate", "primateType"} \subseteq applied)
  /\ (pc = "clamp" /\ BothPrimateSigns(call.arg)) =>
       /\ applied \cap {"knownPrimate", "primateType"} = {"knownPrimate"}
       /\ Add(score, Num(0 - 10)) =
            Add(SumBackwards(call.arg, 3, Len(RuleOrder)),
                IF Less(Locals(call.arg).blurry, Num(4))
                THEN Num(0 - 70) ELSE Num(0 - 50))
  /\ (pc = "clamp" /\ "primateType" \in applied) =>
       ~Truthy(call.arg.f.knownPrimate)
\* the evaluation of a record with knownPrimate true and the label Gorilla,
\* all rules done, with the known-primate penalty alone
C14_Witness ==
  /\ pc = "clamp"
  /\ call.arg.f.knownPrimate = True
  /\ call.arg.f.primateType = Str(<<"G", "o", "r", "i", "l", "l", "a">>)
  /\ "knownPrimate" \in applied
  /\ "primateType" \notin applied

\* calculateSquatchScore is under way or has returned for the call at hand
Evaluating ==
  /\ pc \notin {"idle", "dadProfileMatch"}
  /\ ~Truthy(call.arg.f.dadProfileMatch)

\* C15: in no evaluation is the generic-humanoid bonus (+15) applied together
\* with the squatch-like bonus (+45) or the hairy-humanoid bonus (+35), and it
\* is never applied to a record with wearingClothes true; the +45 and the +35
\* bonus are applied together for some records.
C15_GenericBonusExclusive ==
  (Evaluating /\ "genericHumanoid" \in applied) =>
    /\ "humanoidSquatchLike" \notin applied
    /\ "hairyHumanoid" \notin applied
    /\ call.arg.f.wearingClothes # True
    /\ pc = "blurry" =>
         score = Add(Num(10 + 15), SumBackwards(call.arg, 1, 4))
\* an evaluation that has applied both the +45 and the +35 bonus, and not
\* the +15 bonus, to a record with humanoid true
C15_Witness ==
  /\ pc = "blurry"
  /\ call.arg.f.humanoid = True
  /\ {"humanoidSquatchLike", "hairyHumanoid"} \subseteq applied
  /\ "genericHumanoid" \notin applied
  /\ score = Add(Num(10 + 45 + 35), SumBackwards(call.arg, 1, 4))

(***************************************************************************)
(* Properties of the upload page.                                          *)
(***************************************************************************)
RunIds == 1..Len(runs)
\* run r awaits a request that has not been aborted
Live(r) == InFlight(runs[r]) /\ ~runs[r].aborted
\* run r moves in this step
Moves(r) == r \in DOMAIN runs' /\ runs'[r] # runs[r]

\* while a request that has not been aborted is in flight, analyzing is
\* true and no other such request is in flight
OneLiveRun ==
  \A r \in RunIds :
    Live(r) => /\ analyzing
               /\ \A q \in RunIds : Live(q) => q = r
\* a step that leaves a run in flight leaves analyzing true and does not
\* reset progressIndex
NoForeignReset ==
  (\E r \in RunIds : Live(r) /\ InFlight(runs'[r])) =>
    /\ analyzing'
    /\ progressIndex' >= progressIndex

\* C16: under any interleaving of the handlers, the timers and the settling
\* of requests, analyzing is true whenever a request that has not been
\* aborted is in flight (so at most one is), and no step taken while a run
\* stays in flight, the cleanup of an earlier aborted run included, resets
\* analyzing or progressIndex.
C16_AnalyzingWhileInFlight == [](OneLiveRun) /\ [][NoForeignReset]_vars
\* a second run in flight, its timer having fired, after the first run was
\* aborted and has gone through its cleanup
C16_Witness ==
  /\ Len(runs) = 2
  /\ runs[1].exit = "abort"
  /\ runs[1].ticks > 0
  /\ Live(2)
  /\ runs[2].ticks > 0
  /\ analyzing
  /\ progressIndex > 0

\* result or error gets a new value that is not null
Publishes ==
  \/ result' # result /\ result' # "null"
  \/ error' # error /\ error' # "null"
\* while an aborted run waits to resume, nothing is shown and no image is
\* selected
AbortedShowsNothing ==
  \A r \in RunIds :
    runs[r].at = "rejected" =>
      result = "null" /\ error = "null" /\ image = "null" /\ ~analyzing
\* an aborted run ends without a new value for result, error or image, and
\* what is published later comes from a file selection or from a run that
\* was not aborted
AbortedPublishesNothing ==
  /\ \A r \in RunIds :
       (runs[r].aborted /\ Moves(r)) =>
         /\ runs'[r].exit = "abort"
         /\ result' = "null" /\ error' = "null" /\ image' = "null"
  /\ Publishes => \/ runs' = runs
                  \/ \E r \in RunIds : Moves(r) /\ ~runs[r].aborted

\* C17: after handleRemoveImage has aborted an analysis in flight, that run
\* publishes nothing: result, error and image are null when it resumes and
\* when it ends, wherever the request was, and a later value of result or
\* error comes from a file selection or from a run that was not aborted.
C17_AbortedRunSilent == [](AbortedShowsNothing) /\ [][AbortedPublishesNothing]_vars
\* a run aborted while it awaited the body of an OK JSON response has ended,
\* with nothing shown
C17_Witness ==
  /\ Len(runs) >= 1
  /\ runs[1].exit = "abort"
  /\ runs[1].res = [ok |-> TRUE, json |-> TRUE]
  /\ result = "null" /\ error = "null" /\ image = "null"
  /\ ~analyzing

ExitPaths == {"success", "http", "not json", "parse", "network", "abort"}
\* a run that has ended has no timer
EndedRunsHaveNoTimer ==
  \A r \in RunIds :
    runs[r].at = "done" => ~runs[r].interval /\ runs[r].exit \in ExitPaths
\* the step that ends a run clears its timer and sets analyzing to false and
\* progressIndex to 0
EndsClean ==
  \A r \in RunIds :
    (runs[r].at # "done" /\ runs'[r].at = "done") =>
      /\ ~runs'[r].interval
      /\ ~analyzing'
      /\ progressIndex' = 0

\* C18: every run, once its request has settled, ends with its timer
\* cleared, analyzing false and progressIndex 0, whichever way it leaves:
\* success, a status that is not OK, a body that is no JSON, a network
\* error, or an abort.
C18_CleanupOnEveryExit == [](EndedRunsHaveNoTimer) /\ [][EndsClean]_vars
\* a run whose timer had fired has left by the return in the inner catch,
\* another one by an abort, and the page is not analyzing
C18_Witness ==
  /\ Len(runs) = 2
  /\ runs[1].exit = "parse" /\ runs[1].ticks > 0 /\ ~runs[1].interval
  /\ runs[2].exit = "abort" /\ runs[2].ticks > 0 /\ ~runs[2].interval
  /\ ~analyzing
  /\ progressIndex = 0

\* C19: result and error are never both set; result is set only by a run
\* whose response was OK and JSON, error by a run only when it failed (or by
\* the selection of a file that is no image); and both are null while a run
\* is in flight.
C19_ResultXorError ==
  /\ ~(result # "null" /\ error # "null")
  /\ result # "null" =>
       \E r \in RunIds : /\ runs[r].exit = "success"
                         /\ runs[r].res = [ok |-> TRUE, json |-> TRUE]
  /\ error \notin {"null", "Please select an image file (JPEG, PNG, GIF, WebP)"} =>
       \E r \in RunIds : runs[r].exit \in {"http", "parse", "network"}
  /\ \A r \in RunIds : InFlight(runs[r]) => result = "null" /\ error = "null"
\* the part of C19 that the code keeps: result and error are never both set
ResultAndErrorExclusive == ~(result # "null" /\ error # "null")

=============================================================================
